---- MODULE Spec2Model ----
(***************************************************************************)
(* The API's in-memory claims cache (ClaimsCache over node-cache), keyed   *)
(* by the SHA-256 digest of the access token.  The clock is Date.now() in  *)
(* milliseconds; token expiries are whole seconds since the epoch.         *)
(***************************************************************************)
EXTENDS Integers, Sequences, FiniteSets, Bags, TLC

\* ------------------------------------------------------------- constants
MsPerSecond == 1000
SecondsPerMinute == 60

\* --------------------------------------------------------------- bounds
MaxMinutes == 1
MaxSecond == 1
MaxPending == 2

\* Sub-second positions of the clock that the model visits.
SubSecondMs == {0, 500}

\* Values of configuration.maxClaimsCacheMinutes
MinuteOptions == 0..MaxMinutes

\* The whole seconds the model visits: the first ones after the epoch and
\* the first ones after the longest configured maximum.
Seconds == {m * SecondsPerMinute + d : m \in {0, MaxMinutes}, d \in 0..MaxSecond}

\* Clock readings (milliseconds)
Instants == {s * MsPerSecond + f : s \in Seconds, f \in SubSecondMs}

\* The exp values handed to addClaimsForToken (seconds since the epoch): the
\* first seconds, and one that lies further ahead than any configured maximum.
Expiries == (0..MaxSecond) \cup {MaxMinutes * SecondsPerMinute + MaxSecond}

Credentials == {"tokenA", "tokenB"}
Claims == {"claimsA", "claimsB"}

\* null / undefined
Null == "null"

VARIABLES
    now,        \* the clock, in milliseconds
    stdTTL,     \* this._cache.options.stdTTL, in seconds
    data,       \* node-cache's store: key -> [v: value, t: expiry in ms, 0 = none]
    logged,     \* the ApiLogger.info lines of the most recent step
    inserted,   \* history: per credential, the most recent call that stored
    lastOp,     \* history: the most recent step, what it was given and returned
    pending,    \* the calls that are at their await
    user,       \* the SPA: the user that OIDC Client holds in HTML5 storage
    page,       \* the SPA: the browser's location and what replaced its history entry
    oidc,       \* the SPA: OIDC Client's pending login request and silent renewal
    outcome     \* the SPA: the most recent call of the Authenticator and how it ended

authVars == <<user, page, oidc, outcome>>

vars == <<now, stdTTL, data, logged, inserted, lastOp, pending, user, page, oidc, outcome>>

\* ----------------------------------------------------------- js-sha256
\* The hex digests of the credentials of the model
Sha256(accessToken) ==
    CASE accessToken = "tokenA" ->
           "60e831fc1abfc323f473c2ac50aa703e5873d42cfd3bae062b426dd51c7ad811"
      [] accessToken = "tokenB" ->
           "a9b6ea7e9127561de94d46f3d5a39a277ca0246fe04521638ebc280015110643"

\* ----------------------------------------------------------- node-cache
\* _wrap: ttl 0 means "no expiry" and is stored as t = 0
Wrap(value, ttl) ==
    [v |-> value, t |-> IF ttl = 0 THEN 0 ELSE now + ttl * MsPerSecond]

\* (variant: an entry counts as expired from the instant of its expiry on)
IsExpiredAtOrBefore(entry) == entry.t # 0 /\ entry.t <= now

\* _check: an entry is expired when it has an expiry and that is in the past
IsExpired(entry) == entry.t # 0 /\ entry.t < now

Expired(key) == key \in DOMAIN data /\ IsExpired(data[key])

\* del
Del(d, keys) == [k \in (DOMAIN d) \ keys |-> d[k]]

\* (variant: get without the check of the expiry)
CacheGetNoCheck(key) == IF key \in DOMAIN data THEN data[key].v ELSE Null

\* (variant: get raises an error for a key that is missing or expired, as
\* with node-cache's errorOnMissing)
CacheGetErrorOnMissing(key) ==
    IF key \in DOMAIN data /\ ~Expired(key) THEN data[key].v ELSE "ENOTFOUND"

\* get: the value of an entry that is present and not expired
CacheGet(key) ==
    IF key \in DOMAIN data /\ ~Expired(key) THEN data[key].v ELSE Null

\* (variant: a hit renews the entry for another stdTTL seconds)
DataAfterGetRenew(key) ==
    IF Expired(key) THEN Del(data, {key})
    ELSE IF key \in DOMAIN data
         THEN [data EXCEPT ![key] = Wrap(data[key].v, stdTTL)]
         ELSE data

\* (variant: get deletes every expired entry, not only the one it looked up)
DataAfterGetSweepAll(key) == Del(data, {k \in DOMAIN data : Expired(k)})

\* get deletes the entry it finds expired (deleteOnExpire)
DataAfterGet(key) == IF Expired(key) THEN Del(data, {key}) ELSE data

\* (variant: set keeps the entry that a key already has)
CacheSetKeepFirst(key, value, ttl) ==
    IF key \in DOMAIN data THEN data
    ELSE [k \in (DOMAIN data) \cup {key} |-> IF k = key THEN Wrap(value, ttl) ELSE data[k]]

\* (variant: set replaces the value and keeps the expiry that a key already has)
CacheSetKeepExpiry(key, value, ttl) ==
    [k \in (DOMAIN data) \cup {key} |->
        IF k # key THEN data[k]
        ELSE IF key \in DOMAIN data THEN [v |-> value, t |-> data[key].t]
        ELSE Wrap(value, ttl)]

\* set: the entry of the key is replaced
CacheSet(key, value, ttl) ==
    [k \in (DOMAIN data) \cup {key} |-> IF k = key THEN Wrap(value, ttl) ELSE data[k]]

\* ------------------------------------------------------------- logging
ExpiredMsg(key) ==
    [msg |-> "Expired token has been removed from the cache", seconds |-> 0, hash |-> key]

NewTokenMsg(hash) ==
    [msg |-> "New token will be added to claims cache", seconds |-> 0, hash |-> hash]

FoundMsg(hash) ==
    [msg |-> "Found existing token in claims cache", seconds |-> 0, hash |-> hash]

WillExpireMsg(secondsToCache, hash) ==
    [msg |-> "Token to be cached will expire in", seconds |-> secondsToCache, hash |-> hash]

AddingMsg(secondsToCache, hash) ==
    [msg |-> "Adding token to claims cache for", seconds |-> secondsToCache, hash |-> hash]

\* (variant: the removals of the periodic check raise no event)
ExpiredEventsNone(keys) == <<>>

\* the 'expired' events of the keys that a check removes, one for each
RECURSIVE ExpiredEvents(_)
ExpiredEvents(keys) ==
    IF keys = {} THEN <<>>
    ELSE LET k == CHOOSE x \in keys : TRUE
         IN <<ExpiredMsg(k)>> \o ExpiredEvents(keys \ {k})

\* ---------------------------------------------------------- ClaimsCache
\* A call runs without interruption up to its await, so the clock readings
\* of one such run (new Date() and node-cache's Date.now()) are one instant.
\* constructor
DefaultExpirySeconds(maxClaimsCacheMinutes) == maxClaimsCacheMinutes * SecondsPerMinute

NoUser == [access_token |-> Null, expires_at |-> 0]
NoRequest == [request |-> Null, from |-> Null, renewing |-> TRUE]
NoOutcome == [op |-> "none", result |-> "none", value |-> Null, calls |-> <<>>]

NoEntry == [v |-> Null, t |-> 0]
NoInsert == [at |-> 0, expiry |-> 0, claims |-> Null, over |-> FALSE]
NoOp == [op |-> "none", cred |-> Null, ret |-> Null, changed |-> FALSE, prev |-> NoEntry,
         own |-> Null, must |-> FALSE, late |-> FALSE]

Init ==
    /\ now = 0
    /\ \E minutes \in MinuteOptions : stdTTL = DefaultExpirySeconds(minutes)
    /\ data = <<>>
    /\ logged = <<>>
    /\ inserted = [c \in Credentials |-> NoInsert]
    /\ lastOp = NoOp
    /\ pending = EmptyBag
    /\ user = NoUser
    /\ page = [state |-> Null, hash |-> ""]
    /\ oidc = NoRequest
    /\ outcome = NoOutcome

\* Math.floor(new Date() / 1000)
EpochSeconds == now \div MsPerSecond

SecondsToCache(expiry) == expiry - EpochSeconds

\* (variant: a token with no time left is cached too)
ShouldCacheNonNegative(secondsToCache) == secondsToCache >= 0

ShouldCache(secondsToCache) == secondsToCache > 0

\* Do not exceed the maximum time we configured
ClampToMax(secondsToCache) ==
    IF secondsToCache > stdTTL THEN stdTTL ELSE secondsToCache

\* The key under which a token is looked up and stored
LookupKey(accessToken) == Sha256(accessToken)

\* (variant: the token itself is the key of the store)
StoreKeyRaw(accessToken) == accessToken

StoreKey(accessToken) == Sha256(accessToken)

\* History: the end of the time for which the claims of an insert are due,
\* min(expiry, insert time + configured maximum), in milliseconds
DueUntil(ins) ==
    LET a == ins.expiry * MsPerSecond
        b == ins.at + stdTTL * MsPerSecond
    IN IF a < b THEN a ELSE b

\* History: the claims most recently stored for a credential, and whether a
\* lookup made now is within the time for which they are due
Own(accessToken) == inserted[accessToken].claims
Must(accessToken) ==
    inserted[accessToken] # NoInsert /\ now <= DueUntil(inserted[accessToken])

\* The entry of node-cache's store under a key, if any
Found(key) == IF key \in DOMAIN data THEN data[key] ELSE NoEntry

\* History: the call replaces a live entry that holds other claims and that
\* would have lived longer than the new one
Overwrites(key, value, ttl) ==
    /\ key \in DOMAIN data /\ ~Expired(key)
    /\ data[key].v # value
    /\ ttl # 0
    /\ (data[key].t = 0 \/ data[key].t > now + ttl * MsPerSecond)

\* getClaimsForToken up to its await: the hash and the cache's get
GetSync(accessToken) ==
    LET hash == LookupKey(accessToken)
    IN /\ data' = DataAfterGet(hash)
       /\ UNCHANGED <<now, stdTTL, inserted>>
       /\ UNCHANGED authVars

\* getClaimsForToken after its await: the log line and the return
GetLine(hash, claims) == IF claims = Null THEN NewTokenMsg(hash) ELSE FoundMsg(hash)

\* (variant: the claims are kept in a field that the calls share, so a call
\* returns what a later call for another token has read)
GetReturnShared(task) ==
    LET others == {t \in BagToSet(pending) : t.op = "get" /\ t.cred # task.cred}
    IN IF others = {} THEN task.ret ELSE (CHOOSE t \in others : TRUE).ret

\* What the call returns: the claims it read from the cache
GetReturn(task) == task.ret

getClaimsForToken(accessToken) ==
    LET hash == LookupKey(accessToken)
        task == [op |-> "get", cred |-> accessToken, ret |-> CacheGet(hash),
                 changed |-> Expired(hash), prev |-> Found(hash),
                 own |-> Own(accessToken), must |-> Must(accessToken), late |-> FALSE]
    IN /\ GetSync(accessToken)
       /\ logged' = (IF Expired(hash) THEN <<ExpiredMsg(hash)>> ELSE <<>>)
                    \o <<GetLine(hash, GetReturn(task))>>
       /\ lastOp' = [task EXCEPT !.ret = GetReturn(task)]
       /\ UNCHANGED pending

\* addClaimsForToken up to its await: everything, the cache's set included
AddSync(accessToken, expiry, claims) ==
    LET secondsToCache == SecondsToCache(expiry)
        hash == StoreKey(accessToken)
        ttl == ClampToMax(secondsToCache)
    IN /\ IF ShouldCache(secondsToCache)
          THEN /\ data' = CacheSet(hash, claims, ttl)
               /\ logged' = <<WillExpireMsg(secondsToCache, hash), AddingMsg(ttl, hash)>>
               /\ inserted' = [inserted EXCEPT ![accessToken] =
                                 [at |-> now, expiry |-> expiry, claims |-> claims,
                                  over |-> Overwrites(hash, claims, ttl)]]
          ELSE /\ logged' = <<>>
               /\ UNCHANGED <<data, inserted>>
       /\ UNCHANGED <<now, stdTTL>>
       /\ UNCHANGED authVars

AddTask(accessToken, expiry) ==
    [op |-> "add", cred |-> accessToken, ret |-> Null,
     changed |-> ShouldCache(SecondsToCache(expiry)),
     prev |-> NoEntry,
     own |-> Null, must |-> FALSE,
     late |-> expiry * MsPerSecond - now <= 0]

addClaimsForToken(accessToken, expiry, claims) ==
    /\ AddSync(accessToken, expiry, claims)
    /\ lastOp' = AddTask(accessToken, expiry)
    /\ UNCHANGED pending

\* node-cache's periodic _checkData: every expired entry is deleted and reported
\* (a run that finds nothing expired changes nothing)
Sweep ==
    LET gone == {k \in DOMAIN data : Expired(k)}
    IN /\ gone # {}
       /\ data' = Del(data, gone)
       /\ logged' = ExpiredEvents(gone)
       /\ lastOp' = [NoOp EXCEPT !.op = "sweep", !.changed = gone # {}]
       /\ UNCHANGED <<now, stdTTL, inserted, pending>>
       /\ UNCHANGED authVars

\* Time passes
Tick ==
    /\ \E t \in Instants : t > now /\ now' = t
    /\ logged' = <<>>
    /\ lastOp' = [NoOp EXCEPT !.op = "tick"]
    /\ UNCHANGED <<stdTTL, data, inserted, pending>>
    /\ UNCHANGED authVars

Get == \E c \in Credentials : getClaimsForToken(c)

Add == \E c \in Credentials, e \in Expiries, cl \in Claims : addClaimsForToken(c, e, cl)

\* One caller that awaits each call before it makes the next
Next == Get \/ Add \/ Sweep \/ Tick

Spec == Init /\ [][Next]_vars

\* ------------------------------------------------- concurrent requests
\* Several requests are in flight: a call runs up to its await, and its
\* continuation runs later, after other calls and continuations.
CallGet(accessToken) ==
    LET hash == LookupKey(accessToken)
    IN /\ BagCardinality(pending) < MaxPending
       /\ GetSync(accessToken)
       /\ logged' = (IF Expired(hash) THEN <<ExpiredMsg(hash)>> ELSE <<>>)
       /\ pending' = pending (+) SetToBag({
              [op |-> "get", cred |-> accessToken, ret |-> CacheGet(hash),
               changed |-> FALSE, prev |-> NoEntry,
               own |-> Own(accessToken), must |-> Must(accessToken), late |-> FALSE]})
       /\ lastOp' = NoOp

AddPending(accessToken) == [NoOp EXCEPT !.op = "add", !.cred = accessToken]

CallAdd(accessToken, expiry, claims) ==
    /\ BagCardinality(pending) < MaxPending
    /\ AddSync(accessToken, expiry, claims)
    /\ pending' = pending (+) SetToBag({AddPending(accessToken)})
    /\ lastOp' = NoOp

Resume(task) ==
    /\ pending' = pending (-) SetToBag({task})
    /\ logged' = IF task.op = "get"
                 THEN <<GetLine(LookupKey(task.cred), GetReturn(task))>>
                 ELSE <<>>
    /\ lastOp' = [task EXCEPT !.ret = IF task.op = "get" THEN GetReturn(task) ELSE Null]
    /\ UNCHANGED <<now, stdTTL, data, inserted>>
    /\ UNCHANGED authVars

\* Time passes: the concurrent calls are made at one instant, and later ones
\* at the last of the instants, when every entry with an expiry has expired
LastInstant == CHOOSE t \in Instants : \A u \in Instants : u <= t

TickLate ==
    /\ now < LastInstant
    /\ now' = LastInstant
    /\ logged' = <<>>
    /\ lastOp' = NoOp
    /\ UNCHANGED <<stdTTL, data, inserted, pending>>
    /\ UNCHANGED authVars

CallGets == \E c \in Credentials : CallGet(c)

CallAdds == \E c \in Credentials, e \in Expiries, cl \in Claims : CallAdd(c, e, cl)

Resumes == \E task \in BagToSet(pending) : Resume(task)

NextConc == CallGets \/ CallAdds \/ Resumes \/ Sweep \/ TickLate

SpecConc == Init /\ [][NextConc]_vars

\* -------------------------------------------------------- Authenticator
\* The SPA's Authenticator over OIDC Client's UserManager. expires_at is epoch
\* seconds with a fraction in the code (Date.now() / 1000 + 60); the model keeps
\* it in milliseconds, which is the same number times MsPerSecond.
RenewalSeconds == 60

\* the access token may be corrupted until it is this long
MaxTokenLength == 5

cacheVars == <<now, stdTTL, data, logged, inserted, lastOp, pending>>

AccessTokens == {"", "at1"}
LocationHashes == {"", "#home"}
\* the state parameter of the page URL's query: none, an empty one, a value
QueryStates == {Null, "", "s1"}
StoredUsers ==
    {NoUser} \cup {[access_token |-> t, expires_at |-> MaxSecond * MsPerSecond] : t \in AccessTokens}

Called(fn, arg) == [fn |-> fn, arg |-> arg]

\* JSON.stringify of the data object {hash}
JsonStringify(d) == "{\"hash\":\"" \o d.hash \o "\"}"

\* JSON.parse: the object of a text that is JSON, a SyntaxError otherwise
JsonParse(text) ==
    IF \E h \in LocationHashes \cup {"#"} : text = JsonStringify([hash |-> h])
    THEN [ok |-> TRUE,
          hash |-> CHOOSE h \in LocationHashes \cup {"#"} : text = JsonStringify([hash |-> h])]
    ELSE [ok |-> FALSE, hash |-> Null]

\* (variant: a user counts as logged in whatever its access token is)
HasTokenAnyUser(u) == u # NoUser

\* user && user.access_token && user.access_token.length > 0
HasToken(u) == u # NoUser /\ u.access_token # Null /\ Len(u.access_token) > 0

\* the data that goes with the login redirect
StateData == [hash |-> IF Len(page.hash) > 0 THEN page.hash ELSE "#"]

\* location.hash once history.replaceState has put url in place
HashAfterReplace(url) == IF url = "#" THEN "" ELSE url

\* (variant: only a missing state parameter is no login response)
IsLoginResponseIfPresent(state) == state # Null

\* urlData.query && urlData.query.state: an empty string is falsy
IsLoginResponse(state) == state # Null /\ state # ""

\* getAccessToken; redirected: signinRedirect resolves
getAccessToken(redirected) ==
    /\ IF HasToken(user)
       THEN /\ outcome' = [op |-> "getAccessToken", result |-> "returned",
                           value |-> user.access_token,
                           calls |-> <<Called("getUser", Null)>>]
            /\ UNCHANGED oidc
       ELSE /\ outcome' = [op |-> "getAccessToken", result |-> "threw",
                           value |-> "loginRequestFailed",
                           calls |-> <<Called("getUser", Null),
                                       Called("signinRedirect", JsonStringify(StateData))>>]
            /\ oidc' = IF redirected
                       THEN [oidc EXCEPT !.request = JsonStringify(StateData),
                                         !.from = page.hash]
                       ELSE oidc
    /\ UNCHANGED <<user, page>>
    /\ UNCHANGED cacheVars

\* handleLoginResponse; callbackOk: signinRedirectCallback resolves, which it
\* does only for a login request that OIDC Client has stored; intact: the
\* state that comes back is the text that was stored; expiresAt: the expiry of
\* the new token
handleLoginResponse(callbackOk, intact, expiresAt) ==
    /\ IF ~IsLoginResponse(page.state)
       THEN /\ outcome' = [op |-> "handleLoginResponse", result |-> "returned",
                           value |-> Null, calls |-> <<>>]
            /\ UNCHANGED <<user, page, oidc>>
       ELSE IF callbackOk /\ oidc.request # Null
       THEN LET text == IF intact THEN oidc.request ELSE "garbled"
                parsed == JsonParse(text)
                callback == <<Called("signinRedirectCallback", Null)>>
            IN /\ user' = [access_token |-> "at1", expires_at |-> expiresAt * MsPerSecond]
               /\ oidc' = [oidc EXCEPT !.request = Null]
               /\ IF parsed.ok
                  THEN /\ page' = [page EXCEPT !.hash = HashAfterReplace(parsed.hash)]
                       /\ outcome' = [op |-> "handleLoginResponse", result |-> "returned",
                                      value |-> Null,
                                      calls |-> callback \o <<Called("replaceState", parsed.hash)>>]
                  ELSE /\ page' = [page EXCEPT !.hash = HashAfterReplace("#")]
                       /\ outcome' = [op |-> "handleLoginResponse", result |-> "threw",
                                      value |-> "loginResponseFailed",
                                      calls |-> callback \o <<Called("replaceState", "#")>>]
       ELSE LET callback == <<Called("signinRedirectCallback", Null)>>
            IN /\ page' = [page EXCEPT !.hash = HashAfterReplace("#")]
               /\ outcome' = [op |-> "handleLoginResponse", result |-> "threw",
                              value |-> "loginResponseFailed",
                              calls |-> callback \o <<Called("replaceState", "#")>>]
               /\ UNCHANGED <<user, oidc>>
    /\ UNCHANGED cacheVars

\* startLogout; redirected: signoutRedirect resolves, having removed the user
startLogout(redirected) ==
    /\ IF redirected
       THEN /\ user' = NoUser
            /\ outcome' = [op |-> "startLogout", result |-> "returned", value |-> Null,
                           calls |-> <<Called("signoutRedirect", Null)>>]
       ELSE /\ outcome' = [op |-> "startLogout", result |-> "threw",
                           value |-> "logoutRequestFailed",
                           calls |-> <<Called("signoutRedirect", Null)>>]
            /\ UNCHANGED user
    /\ UNCHANGED <<page, oidc>>
    /\ UNCHANGED cacheVars

clearAccessToken ==
    /\ user' = NoUser
    /\ outcome' = [op |-> "clearAccessToken", result |-> "returned", value |-> Null,
                   calls |-> <<Called("removeUser", Null)>>]
    /\ UNCHANGED <<page, oidc>>
    /\ UNCHANGED cacheVars

\* Date.now() / 1000 + 60
NewExpiresAt == now + RenewalSeconds * MsPerSecond

\* 'x' + user.access_token + 'x'
Corrupted(accessToken) == "x" \o accessToken \o "x"

\* stopSilentRenew, then startSilentRenew
RenewalCalls == <<Called("stopSilentRenew", Null), Called("startSilentRenew", Null)>>

\* whether silent renewal runs after these calls
RECURSIVE Renewing(_, _)
Renewing(was, calls) ==
    IF calls = <<>> THEN was
    ELSE Renewing(Head(calls).fn = "startSilentRenew", Tail(calls))

expireAccessToken ==
    /\ IF user # NoUser
       THEN /\ Len(user.access_token) + 2 <= MaxTokenLength
            /\ user' = [access_token |-> Corrupted(user.access_token),
                        expires_at |-> NewExpiresAt]
            /\ oidc' = [oidc EXCEPT !.renewing = Renewing(oidc.renewing, RenewalCalls)]
            /\ outcome' = [op |-> "expireAccessToken", result |-> "returned", value |-> Null,
                           calls |-> <<Called("getUser", Null),
                                       Called("storeUser", Corrupted(user.access_token))>>
                                     \o RenewalCalls]
       ELSE /\ outcome' = [op |-> "expireAccessToken", result |-> "returned", value |-> Null,
                           calls |-> <<Called("getUser", Null)>>]
            /\ UNCHANGED <<user, oidc>>
    /\ UNCHANGED page
    /\ UNCHANGED cacheVars

\* The browser goes to another URL: the user navigates, or the authorization
\* server redirects back to the app.
Navigate ==
    /\ \E st \in QueryStates, h \in LocationHashes :
          /\ [state |-> st, hash |-> h] # page
          /\ page' = [state |-> st, hash |-> h]
    /\ outcome' = NoOutcome
    /\ UNCHANGED <<user, oidc>>
    /\ UNCHANGED cacheVars

\* Time passes between two calls of the Authenticator.
Wait ==
    /\ \E t \in Instants : t > now /\ now' = t
    /\ outcome' = NoOutcome
    /\ UNCHANGED <<user, page, oidc>>
    /\ UNCHANGED <<stdTTL, data, logged, inserted, lastOp, pending>>

InitAuth ==
    /\ now = 0
    /\ stdTTL = DefaultExpirySeconds(MaxMinutes)
    /\ data = <<>>
    /\ logged = <<>>
    /\ inserted = [c \in Credentials |-> NoInsert]
    /\ lastOp = NoOp
    /\ pending = EmptyBag
    /\ user \in StoredUsers
    /\ page \in [state : QueryStates, hash : LocationHashes]
    /\ oidc = NoRequest
    /\ outcome = NoOutcome

GetAccessToken == \E redirected \in BOOLEAN : getAccessToken(redirected)

HandleLoginResponse ==
    \E callbackOk \in BOOLEAN, intact \in BOOLEAN, expiresAt \in Expiries :
        handleLoginResponse(callbackOk, intact, expiresAt)

StartLogout == \E redirected \in BOOLEAN : startLogout(redirected)

NextAuth ==
    \/ GetAccessToken
    \/ HandleLoginResponse
    \/ StartLogout
    \/ clearAccessToken
    \/ expireAccessToken
    \/ Navigate
    \/ Wait

SpecAuth == InitAuth /\ [][NextAuth]_vars

\* ----------------------------------------------------------- properties
\* The entry that the most recent storing call for a credential asked for:
\* its claims, kept for ttl = min(expiry - now, maximum) from its own time
\* (ttl 0 is node-cache's "no expiry")
StoredEntry(ins) ==
    LET secs == ins.expiry - (ins.at \div MsPerSecond)
        ttl == IF secs > stdTTL THEN stdTTL ELSE secs
    IN [v |-> ins.claims, t |-> IF ttl = 0 THEN 0 ELSE ins.at + ttl * MsPerSecond]

\* C1: a lookup made no later than min(expiry, insert time + maxTtl) after the
\* most recent storing insert of its credential returns exactly the claims of
\* that insert.
C1_LookupReturnsInserted ==
    (/\ lastOp.op = "get"
     /\ inserted[lastOp.cred] # NoInsert
     /\ now <= DueUntil(inserted[lastOp.cred]))
    => lastOp.ret = inserted[lastOp.cred].claims

\* C1 witness: a lookup at a later time, at the very end of that period, hits.
C1_Witness ==
    /\ lastOp.op = "get"
    /\ lastOp.ret \in Claims
    /\ lastOp.ret = inserted[lastOp.cred].claims
    /\ now > inserted[lastOp.cred].at
    /\ now = DueUntil(inserted[lastOp.cred])

\* C2 (as claimed): every entry of the cache has an expiry, and it is no later
\* than its insertion time plus maxTtl, for every configured maximum.
C2_EntryExpiresWithinMaxTtl ==
    \A c \in Credentials :
        StoreKey(c) \in DOMAIN data =>
            /\ data[StoreKey(c)].t # 0
            /\ data[StoreKey(c)].t <= inserted[c].at + stdTTL * MsPerSecond

\* C3 (as claimed): a lookup never returns claims at or after the absolute
\* expiry that was passed to the most recent storing insert of its credential.
C3_NoClaimsAtOrAfterExpiry ==
    (/\ lastOp.op = "get"
     /\ inserted[lastOp.cred] # NoInsert
     /\ now >= inserted[lastOp.cred].expiry * MsPerSecond)
    => lastOp.ret = Null

\* C4: a lookup that finds an entry whose stored expiry has passed returns
\* Miss, although the entry was still in the store.
C4_ExpiredEntryIsMiss ==
    (/\ lastOp.op = "get"
     /\ lastOp.prev # NoEntry
     /\ lastOp.prev.t # 0
     /\ lastOp.prev.t < now)
    => lastOp.ret = Null

\* C4 witness: a lookup found an expired entry in the store and missed.
C4_Witness ==
    /\ lastOp.op = "get"
    /\ lastOp.prev # NoEntry
    /\ lastOp.prev.t # 0
    /\ lastOp.prev.t < now
    /\ lastOp.changed
    /\ lastOp.ret = Null

\* C5: an insert whose expiry is not after the current time (expiry - now <= 0,
\* recorded as lastOp.late) changes nothing: the entries of all credentials,
\* and what is due for them, stay as they were.
C5_ExpiredInsertIsNoOp ==
    [][(lastOp'.op = "add" /\ lastOp'.late) => UNCHANGED <<data, inserted>>]_vars

\* C5 witness: such an insert was made for a credential with a live entry,
\* which is still there with its claims.
C5_Witness ==
    /\ lastOp.op = "add"
    /\ lastOp.late
    /\ StoreKey(lastOp.cred) \in DOMAIN data
    /\ ~Expired(StoreKey(lastOp.cred))
    /\ data[StoreKey(lastOp.cred)].v \in Claims
    /\ \E c \in Credentials : c # lastOp.cred /\ StoreKey(c) \in DOMAIN data

\* C6: the entry of a credential is the one of its most recent storing insert,
\* claims and expiry both; a lookup returns the claims of that insert until
\* the expiry of that insert has passed, and Miss from then on.
C6_OverwriteLastWriteWins ==
    /\ \A c \in Credentials :
          StoreKey(c) \in DOMAIN data => data[StoreKey(c)] = StoredEntry(inserted[c])
    /\ (lastOp.op = "get" /\ inserted[lastOp.cred] # NoInsert) =>
          LET e == StoredEntry(inserted[lastOp.cred])
          IN lastOp.ret = IF e.t # 0 /\ e.t < now THEN Null ELSE e.v

\* C6 witness: a lookup hits after an insert that replaced a live entry with
\* other claims and a later expiry.
C6_Witness ==
    /\ lastOp.op = "get"
    /\ inserted[lastOp.cred].over
    /\ lastOp.ret = inserted[lastOp.cred].claims

\* C7: with calls in flight in any order, a lookup returns nothing but the
\* claims stored for its own credential, returns them whenever they are due,
\* and no stored claims that are due are lost.
C7_EachLookupOwnClaims ==
    /\ lastOp.op = "get" =>
          /\ lastOp.ret \in {Null, lastOp.own}
          /\ lastOp.must => lastOp.ret = lastOp.own
    /\ \A c \in Credentials : Must(c) => CacheGet(LookupKey(c)) = Own(c)

\* C7 witness: a lookup returns its claims while a lookup of another
\* credential, which read other claims, is still in flight.
C7_Witness ==
    /\ lastOp.op = "get"
    /\ lastOp.must
    /\ lastOp.ret \in Claims
    /\ \E t \in BagToSet(pending) :
          /\ t.op = "get"
          /\ t.cred # lastOp.cred
          /\ t.ret \in Claims \ {lastOp.ret}

\* C8: with calls in flight in any order, the entry of a credential is wholly
\* the one of the insert that wrote last, and what a lookup has read is the
\* claims of the insert that had written last, or Miss.
C8_EntryOfOneInsert ==
    /\ \A c \in Credentials :
          LookupKey(c) \in DOMAIN data =>
              /\ data[LookupKey(c)].v = inserted[c].claims
              /\ data[LookupKey(c)].t = StoredEntry(inserted[c]).t
    /\ \A t \in BagToSet(pending) :
          t.op = "get" => (t.ret \in {Null, t.own} /\ (t.must => t.ret = t.own))

\* C8 witness: a lookup returns claims while an insert for the same
\* credential is in flight, after one insert replaced the entry of another.
C8_Witness ==
    /\ lastOp.op = "get"
    /\ lastOp.ret \in Claims
    /\ CopiesIn(AddPending(lastOp.cred), pending) >= 1
    /\ inserted[lastOp.cred].over

\* C9: every key of the store is the digest of a credential that was inserted
\* and no credential, insert and lookup use the same key for a credential, and
\* every log line carries a digest and no credential.
C9_KeysAndLogsAreDigests ==
    /\ \A k \in DOMAIN data :
          /\ k \notin Credentials
          /\ \E c \in Credentials : inserted[c] # NoInsert /\ k = Sha256(c)
    /\ \A c \in Credentials : StoreKey(c) = LookupKey(c)
    /\ \A i \in 1..Len(logged) :
          /\ logged[i].hash \notin Credentials
          /\ \E c \in Credentials : logged[i].hash = Sha256(c)

\* C9 witness: both credentials are stored and a lookup hit has been logged.
C9_Witness ==
    /\ Cardinality(DOMAIN data) = Cardinality(Credentials)
    /\ lastOp.op = "get"
    /\ lastOp.ret \in Claims
    /\ Len(logged) > 0

\* C10: a lookup leaves the store as it was, or removes the expired entry of
\* the key it looked up and nothing else; and a lookup of a credential that
\* was never stored returns Miss.
C10_LookupFrame ==
    /\ [][\A c \in Credentials :
            (lastOp'.op = "get" /\ getClaimsForToken(c)) =>
               \/ data' = data
               \/ /\ Sha256(c) \in DOMAIN data
                  /\ data[Sha256(c)].t # 0
                  /\ data[Sha256(c)].t < now
                  /\ DOMAIN data' = (DOMAIN data) \ {Sha256(c)}
                  /\ \A k \in DOMAIN data' : data'[k] = data[k]]_vars
    /\ []((lastOp.op = "get" /\ inserted[lastOp.cred] = NoInsert) => lastOp.ret = Null)

\* C10 witness: a lookup removed the expired entry of its key while the other
\* credential has an expired entry too, which stays.
C10_Witness ==
    /\ lastOp.op = "get"
    /\ lastOp.changed
    /\ \E k \in DOMAIN data : Expired(k)

\* C11: a key's entry appears or changes only by an insert of that credential
\* with a positive remaining lifetime; an entry leaves the store only once its
\* expiry has passed; so no lookup, sweep or passing of time makes a key live
\* or moves the expiry of an entry, and a hit does not renew it.
C11_KeyLifecycle ==
    [][\A c \in Credentials :
          LET k == Sha256(c)
              byInsert == lastOp'.op = "add" /\ lastOp'.cred = c /\ ~lastOp'.late
          IN /\ (k \notin DOMAIN data /\ k \in DOMAIN data') => byInsert
             /\ (k \in DOMAIN data /\ k \in DOMAIN data' /\ data'[k] # data[k]) => byInsert
             /\ (k \in DOMAIN data /\ k \notin DOMAIN data') =>
                    (data[k].t # 0 /\ data[k].t < now')
             /\ (k \in DOMAIN data /\ data[k].t # 0 /\ data[k].t < now /\ ~byInsert) =>
                    (k \in DOMAIN data' => (data'[k].t # 0 /\ data'[k].t < now'))]_vars

\* C11 witness: a lookup hit an entry some time after its insert, and the
\* entry still has the expiry that the insert gave it.
C11_Witness ==
    /\ lastOp.op = "get"
    /\ lastOp.ret \in Claims
    /\ now > inserted[lastOp.cred].at
    /\ data[Sha256(lastOp.cred)].t # 0
    /\ data[Sha256(lastOp.cred)] = StoredEntry(inserted[lastOp.cred])

\* C12: an insert that is discarded because the remaining lifetime is not
\* positive leaves a log record.
C12_DiscardIsLogged ==
    (lastOp.op = "add" /\ lastOp.late) => Len(logged) > 0

\* C13: a lookup can be made in every state for every credential, and it ends
\* with claims or with null; when the key is missing or its entry has expired
\* it ends with null.
C13_LookupNeverFails ==
    /\ \A c \in Credentials : ENABLED getClaimsForToken(c)
    /\ lastOp.op = "get" =>
          /\ lastOp.ret \in Claims \cup {Null}
          /\ (lastOp.prev = NoEntry \/ (lastOp.prev.t # 0 /\ lastOp.prev.t < now)) =>
                lastOp.ret = Null

\* C13 witness: lookups of a key never stored and of an expired entry have
\* ended with null.
C13_Witness ==
    /\ lastOp.op = "get"
    /\ lastOp.ret = Null
    /\ lastOp.prev # NoEntry
    /\ lastOp.prev.t < now
    /\ \E c \in Credentials : inserted[c] = NoInsert

\* C14: the lifetime that an insert hands to the store is strictly positive,
\* so every stored entry has an expiry and none stays forever.
C14_TtlToStorePositive ==
    /\ \A i \in 1..Len(logged) :
          logged[i].msg = "Adding token to claims cache for" => logged[i].seconds > 0
    /\ \A k \in DOMAIN data : data[k].t # 0

\* C15: in every step, each entry that leaves the store had passed its expiry
\* and has exactly one 'expired' record with its key digest, and every
\* 'expired' record is of an entry that left the store in that step.
C15_OneExpiredEventPerRemoval ==
    [][LET removed == (DOMAIN data) \ (DOMAIN data')
           events == {i \in 1..Len(logged') :
                        logged'[i].msg = "Expired token has been removed from the cache"}
       IN /\ \A k \in removed :
                /\ data[k].t # 0 /\ data[k].t < now'
                /\ Cardinality({i \in events : logged'[i].hash = k}) = 1
          /\ \A i \in events : logged'[i].hash \in removed]_vars

\* C15 witness: the periodic check removed the expired entries of two keys and
\* logged one record for each, after a lookup had done so for one key.
C15_Witness ==
    /\ lastOp.op = "sweep"
    /\ Len(logged) = 2
    /\ logged[1].hash # logged[2].hash
    /\ data = <<>>

\* C16: getAccessToken returns normally exactly when a user with a non-empty
\* access token is stored, and then returns that token without a login
\* redirect; otherwise it calls signinRedirect with the location hash, or '#'
\* when there is none, as its state, and ends by throwing, whether or not the
\* redirect succeeded.
C16_TokenOrLoginRedirect ==
    outcome.op = "getAccessToken" =>
       LET stored == user # NoUser /\ user.access_token \notin {Null, ""}
           redirects == {i \in 1..Len(outcome.calls) : outcome.calls[i].fn = "signinRedirect"}
       IN /\ outcome.result = "returned" <=> stored
          /\ outcome.result = "returned" =>
                (outcome.value = user.access_token /\ redirects = {})
          /\ outcome.result # "returned" =>
                /\ outcome.result = "threw"
                /\ Cardinality(redirects) = 1
                /\ \A i \in redirects :
                      /\ JsonParse(outcome.calls[i].arg).ok
                      /\ JsonParse(outcome.calls[i].arg).hash =
                            (IF page.hash = "" THEN "#" ELSE page.hash)

\* C16 witness: with a stored user whose access token is empty, the call
\* started a login redirect from a page with a hash, the redirect succeeded,
\* and the call ended by throwing.
C16_Witness ==
    /\ outcome.op = "getAccessToken"
    /\ outcome.result = "threw"
    /\ user # NoUser
    /\ page.hash # ""
    /\ oidc.request = outcome.calls[2].arg

C18_ExpiryIn60Minutes ==
    (outcome.op = "expireAccessToken" /\ user # NoUser) =>
       /\ user.expires_at = now + RenewalSeconds * SecondsPerMinute * MsPerSecond
       /\ Len(outcome.calls) = 4
       /\ outcome.calls[2] = Called("storeUser", user.access_token)
       /\ outcome.calls[3].fn = "stopSilentRenew"
       /\ outcome.calls[4].fn = "startSilentRenew"

====
